---- MODULE Spec2Model ----
(***************************************************************************)
(* tellenc: guess the encoding of a byte buffer (src/tellenc.cpp).         *)
(*                                                                         *)
(* The model follows one process.  Its file-scope variables is_binary,     *)
(* is_utf8_conformant and nul_stat are set once, at program start, and     *)
(* live as long as the process; tellenc() has external linkage and can be  *)
(* entered any number of times.  One call is modelled as: Tellenc (entry   *)
(* and BOM check), ScanByte (one iteration of the scan loop), Decide (the  *)
(* two sorts and the decision chain) and Report (the caller's puts).       *)
(***************************************************************************)
EXTENDS Integers, Sequences, FiniteSets, TLC

(***************************************************************************)
(* Program constants.                                                      *)
(***************************************************************************)
MAX_CHAR == 256
NON_TEXT_CHARS == <<0, 26, 127, 255>>
NUL == 0
ODD == 1
EVEN == 2
EOF == -1

UTF8_INVALID == 0
UTF8_1 == 1
UTF8_2 == 2
UTF8_3 == 3
UTF8_4 == 4
UTF8_TAIL == 5

\* A null pointer returned by check_ucs_bom, check_dbyte, check_freq_dbytes
\* or tellenc.
NULL == "<null>"

\* The 10 of "size_t max_comp_idx = 10".
MAX_COMP_IDX == 10

\* The 4 of "if (len > 4)" and the 5 of "dbyte_hihi_cnt * 100 / dbyte_cnt < 5".
BOM_MIN_LEN == 4
LATIN1_PERCENT == 5

freq_analysis_data ==
    << [dbyte |-> 41900, enc |-> "gbk"],   \* 0xa3ac
       [dbyte |-> 41379, enc |-> "gbk"],   \* 0xa1a3
       [dbyte |-> 41377, enc |-> "gbk"],   \* 0xa1a1
       [dbyte |-> 41389, enc |-> "gbk"],   \* 0xa1ad
       [dbyte |-> 46532, enc |-> "gbk"],   \* 0xb5c4
       [dbyte |-> 49097, enc |-> "gbk"],   \* 0xbfc9
       [dbyte |-> 47859, enc |-> "gbk"],   \* 0xbaf3
       [dbyte |-> 53947, enc |-> "gbk"],   \* 0xd2bb
       [dbyte |-> 52946, enc |-> "gbk"],   \* 0xced2
       [dbyte |-> 51911, enc |-> "gbk"],   \* 0xcac7
       [dbyte |-> 47350, enc |-> "gbk"],   \* 0xb8f6
       [dbyte |-> 45755, enc |-> "gbk"],   \* 0xb2bb
       [dbyte |-> 51403, enc |-> "gbk"],   \* 0xc8cb
       [dbyte |-> 54754, enc |-> "gbk"],   \* 0xd5e2
       [dbyte |-> 49611, enc |-> "gbk"],   \* 0xc1cb
       [dbyte |-> 54958, enc |-> "gbk"],   \* 0xd6ae
       [dbyte |-> 41281, enc |-> "big5"],  \* 0xa141
       [dbyte |-> 41283, enc |-> "big5"],  \* 0xa143
       [dbyte |-> 43706, enc |-> "big5"],  \* 0xaaba
       [dbyte |-> 42970, enc |-> "big5"],  \* 0xa7da
       [dbyte |-> 42316, enc |-> "big5"],  \* 0xa54c
       [dbyte |-> 42607, enc |-> "big5"],  \* 0xa66f
       [dbyte |-> 42147, enc |-> "big5"],  \* 0xa4a3
       [dbyte |-> 42048, enc |-> "big5"],  \* 0xa440
       [dbyte |-> 42054, enc |-> "big5"],  \* 0xa446
       [dbyte |-> 42071, enc |-> "big5"],  \* 0xa457
       [dbyte |-> 48033, enc |-> "big5"],  \* 0xbba1
       [dbyte |-> 44111, enc |-> "big5"],  \* 0xac4f
       [dbyte |-> 42594, enc |-> "big5"] >> \* 0xa662

\* Mutant: the pattern table with its two-byte rows moved to the front.
bom_patterns_utf16_first ==
    << [name |-> "utf-16",   pattern |-> <<254, 255>>],
       [name |-> "utf-16le", pattern |-> <<255, 254>>],
       [name |-> "ucs-4",    pattern |-> <<0, 0, 254, 255>>],
       [name |-> "ucs-4le",  pattern |-> <<255, 254, 0, 0>>],
       [name |-> "utf-8",    pattern |-> <<239, 187, 191>>] >>

\* The pattern table of check_ucs_bom, in its order.
bom_patterns ==
    << [name |-> "ucs-4",    pattern |-> <<0, 0, 254, 255>>],
       [name |-> "ucs-4le",  pattern |-> <<255, 254, 0, 0>>],
       [name |-> "utf-8",    pattern |-> <<239, 187, 191>>],
       [name |-> "utf-16",   pattern |-> <<254, 255>>],
       [name |-> "utf-16le", pattern |-> <<255, 254>>] >>

\* Every string tellenc can return, and what main prints for NULL.
Labels ==
    {"ucs-4", "ucs-4le", "utf-8", "utf-16", "utf-16le", "ascii", "latin1",
     "gb2312", "gbk", "big5", "binary", "unknown"}

(***************************************************************************)
(* Bounds of the model, and the buffers the caller hands in.               *)
(***************************************************************************)
MaxLen == 4
MaxTail == 3
MaxRank == 11

\* Byte palettes: each holds bytes of the classes one part of the decision
\* chain tells apart.
Alphabets ==
    { {0, 65, 255},        \* NUL, 'A', 0xFF
      {26, 65, 127},       \* 0x1A, 'A', 0x7F
      {104, 195, 169},     \* 'h', 0xC3 0xA9 (e acute in UTF-8)
      {239, 187, 191},     \* the UTF-8 byte-order mark
      {0, 254, 255},       \* the UCS-4 and UTF-16 byte-order marks
      {181, 196, 164, 64}, \* 0xB5 0xC4 (GBK digraph), 0xA4 0x40 (Big5 digraph)
      {176, 177, 255},     \* 0xB0, 0xB1, 0xFF
      {233, 65, 128} }     \* 0xE9, 'A', 0x80

BoundedSeq(A, n) == UNION {[1..k -> A] : k \in 0..n}

\* Short buffers over one palette.
ShortBuffers == UNION {BoundedSeq(A, MaxLen) : A \in Alphabets}

\* Buffers that open with a byte-order mark of check_ucs_bom, or with EF BB
\* alone, followed by a tail; the long ones pass "len > 4".
BomHeads == {bom_patterns[i].pattern : i \in 1..Len(bom_patterns)} \cup {<<239, 187>>}
TailBytes == {0, 65, 191}      \* NUL, 'A', 0xBF
BomBuffers == {h \o t : h \in BomHeads, t \in BoundedSeq(TailBytes, MaxTail)}

\* n copies of s, one after the other.
RECURSIVE Repeat(_, _)
Repeat(s, n) == IF n = 0 THEN <<>> ELSE s \o Repeat(s, n - 1)

\* Long buffers with MaxRank distinct digraphs of distinct counts: the digraph
\* of rank r is read MaxRank + 1 - r times.  Rank 1 is B0 B0, the digraph at
\* rank dict is A1 41 of freq_analysis_data ("big5"), and every other rank r
\* is the byte 0xC0 + r followed by 'A', which is no entry of the dictionary.
RankDigraph(r, dict) ==
    IF r = dict THEN <<161, 65>>
    ELSE IF r = 1 THEN <<176, 176>>
    ELSE <<192 + r, 65>>

RECURSIVE RankedFrom(_, _)
RankedFrom(r, dict) ==
    IF r > MaxRank THEN <<>>
    ELSE Repeat(RankDigraph(r, dict), MaxRank + 1 - r) \o RankedFrom(r + 1, dict)

\* The dictionary digraph is the last one check_freq_dbytes looks at, or the
\* first one it does not look at.
RankedBuffers == {RankedFrom(1, dict) : dict \in {MAX_COMP_IDX, MAX_COMP_IDX + 1}}

\* Long buffers around the threshold of "dbyte_hihi_cnt * 100 / dbyte_cnt < 5":
\* 'A', then E9 41 again and again, then B0 B0, the one hi-hi digraph among
\* 100/5 = 20 digraphs, or among 21.
ThresholdBuffers ==
    {<<65>> \o Repeat(<<233, 65>>, d - 1) \o <<176, 176>> :
        d \in {100 \div LATIN1_PERCENT, 100 \div LATIN1_PERCENT + 1}}

Buffers == ShortBuffers \cup BomBuffers \cup RankedBuffers \cup ThresholdBuffers

VARIABLES
    char_signed,         \* the build: TRUE when plain char is signed
    is_binary,           \* static bool is_binary
    is_utf8_conformant,  \* static bool is_utf8_conformant
    nul_stat,            \* static int nul_stat
    pc,                  \* "idle", "scan" (in the loop), "done" (at return)
    first_call,          \* history: no call of tellenc has returned yet
    buffer,              \* the argument buffer; len is Len(buffer)
    p,                   \* p - buffer
    char_cnt,            \* char_cnt[i].second, by char_cnt[i].first
    mp_dbyte_char_cnt,   \* map<uint16_t, size_t>
    dbyte_cnt,
    dbyte_hihi_cnt,
    last_ch,
    utf8_state,
    sorted_char_cnt,     \* char_cnt after sort, up to its first zero count
    dbyte_char_cnt,      \* vector<char_count_t>, after sort
    result,              \* the value tellenc returns
    output,              \* the line main wrote for the latest call, once written
    repeat,              \* the caller kept its first buffer to classify it again
    prev_output,         \* history: on a repeated buffer, the line written before
    sort_memo            \* on a repeated buffer, what the two sorts gave before

globals == <<is_binary, is_utf8_conformant, nul_stat>>
locals == <<p, char_cnt, mp_dbyte_char_cnt, dbyte_cnt, dbyte_hihi_cnt,
            last_ch, utf8_state, sorted_char_cnt, dbyte_char_cnt>>
vars == <<char_signed, is_binary, is_utf8_conformant, nul_stat, pc, first_call,
          buffer, p, char_cnt, mp_dbyte_char_cnt, dbyte_cnt, dbyte_hihi_cnt,
          last_ch, utf8_state, sorted_char_cnt, dbyte_char_cnt, result,
          output, repeat, prev_output, sort_memo>>

NoResult == "<none>"
NoMemo == <<>>

(***************************************************************************)
(* Helpers of the program.                                                 *)
(***************************************************************************)

\* The argument conversion of is_non_text(char ch): an unsigned char above
\* 127 becomes negative where plain char is signed.
ToChar(ch) == IF char_signed /\ ch > 127 THEN ch - 256 ELSE ch

is_non_text(ch) ==
    \E i \in 1..Len(NON_TEXT_CHARS) : ToChar(ch) = NON_TEXT_CHARS[i]

\* Mutant: the two parities exchanged.
is_odd_even_swapped(pos) == IF pos % 2 = 1 THEN EVEN ELSE ODD

is_odd_even(pos) == IF pos % 2 = 1 THEN ODD ELSE EVEN

\* Mutant: a ^ b in place of a | b.
BitXor(a, b) ==
    (IF (a % 2 = 1) # (b % 2 = 1) THEN 1 ELSE 0)
    + (IF ((a \div 2) % 2 = 1) # ((b \div 2) % 2 = 1) THEN 2 ELSE 0)

\* a | b on the two bits of nul_stat.
BitOr(a, b) ==
    (IF a % 2 = 1 \/ b % 2 = 1 THEN 1 ELSE 0)
    + (IF (a \div 2) % 2 = 1 \/ (b \div 2) % 2 = 1 THEN 2 ELSE 0)

\* Mutant: the table with NUL in class UTF8_1, like the other 7-bit bytes.
utf8_char_table_nul_single(ch) ==
    IF ch <= 127 THEN UTF8_1
    ELSE IF ch <= 191 THEN UTF8_TAIL
    ELSE IF ch <= 193 THEN UTF8_INVALID
    ELSE IF ch <= 223 THEN UTF8_2
    ELSE IF ch <= 239 THEN UTF8_3
    ELSE IF ch <= 244 THEN UTF8_4
    ELSE UTF8_INVALID

\* utf8_char_table as init_utf8_char_table fills it.
utf8_char_table(ch) ==
    IF ch = 0 THEN UTF8_INVALID
    ELSE IF ch <= 127 THEN UTF8_1
    ELSE IF ch <= 191 THEN UTF8_TAIL
    ELSE IF ch <= 193 THEN UTF8_INVALID
    ELSE IF ch <= 223 THEN UTF8_2
    ELSE IF ch <= 239 THEN UTF8_3
    ELSE IF ch <= 244 THEN UTF8_4
    ELSE UTF8_INVALID

init_char_count == [i \in 0..(MAX_CHAR - 1) |-> 0]

\* The switch on utf8_char_table[ch]: whether byte class cls keeps the buffer
\* conformant in state st, and the state it then leaves.
utf8_accepts(cls, st) ==
    CASE cls = UTF8_INVALID -> FALSE
      [] cls = UTF8_1 -> st = UTF8_1
      [] cls \in {UTF8_2, UTF8_3, UTF8_4} -> st = UTF8_1
      [] cls = UTF8_TAIL -> st > UTF8_1

utf8_next(cls, st) ==
    CASE cls = UTF8_1 -> st
      [] cls \in {UTF8_2, UTF8_3, UTF8_4} -> cls
      [] cls = UTF8_TAIL -> st - 1

\* Mutant: the switch run without its enclosing "if (is_utf8_conformant)".
utf8_conformant_after_unguarded(conformant, cls, st) == utf8_accepts(cls, st)

\* is_utf8_conformant after "if (is_utf8_conformant) { switch ... }": the
\* switch only ever assigns false, and is not entered once the flag is false.
utf8_conformant_after(conformant, cls, st) ==
    conformant /\ utf8_accepts(cls, st)

\* "char_cnt[ch].second++".
count_char(cnt, ch) == [cnt EXCEPT ![ch] = @ + 1]

\* Mutant: the count of a digraph set to one instead of incremented.
count_dbyte_set_one(mp, dbyte) ==
    [k \in DOMAIN mp \cup {dbyte} |-> IF k = dbyte THEN 1 ELSE mp[k]]

\* "mp_dbyte_char_cnt[dbyte_char]++": operator[] inserts a zero count for a
\* new key.
count_dbyte(mp, dbyte) ==
    IF dbyte \in DOMAIN mp
    THEN [mp EXCEPT ![dbyte] = @ + 1]
    ELSE [k \in DOMAIN mp \cup {dbyte} |-> IF k = dbyte THEN 1 ELSE mp[k]]

\* "(last_ch << 8) + ch" in a uint16_t.
make_dbyte(last, ch) == (last * 256 + ch) % 65536

\* Mutant: the second byte of a pair kept pending when it is high.
next_last_ch_overlap(last, ch) ==
    IF ch >= 128 THEN ch ELSE IF last # EOF THEN EOF ELSE last

\* Mutant: a byte kept pending only when it is above 0xa0.
next_last_ch_a0(last, ch) ==
    IF last # EOF THEN EOF ELSE IF ch > 160 THEN ch ELSE last

\* last_ch after the byte ch: "last_ch = EOF" when a pair was completed,
\* "else if (ch >= 0x80) last_ch = ch".
next_last_ch(last, ch) ==
    IF last # EOF THEN EOF ELSE IF ch >= 128 THEN ch ELSE last

\* Mutant: 0xb0 written for 0xa0.
is_hihi_b0(last, ch) == last > 176 /\ ch > 176

\* "last_ch > 0xa0 && ch > 0xa0".
is_hihi(last, ch) == last > 160 /\ ch > 160

\* Mutant: main without its else branch, writing whatever tellenc returned.
report_line_raw(enc) == enc

\* What main writes for the value tellenc returned.
report_line(enc) == IF enc = NULL THEN "unknown" ELSE enc

\* memcmp(buffer, pattern, pattern_len) == 0.
PrefixMatches(buf, pat) ==
    /\ Len(buf) >= Len(pat)
    /\ \A i \in 1..Len(pat) : buf[i] = pat[i]

\* Mutant: the pattern table without its "utf-8" row.
check_ucs_bom_no_utf8(buf) ==
    LET hits == {i \in 1..Len(bom_patterns) :
                    /\ bom_patterns[i].name # "utf-8"
                    /\ PrefixMatches(buf, bom_patterns[i].pattern)}
    IN  IF hits = {} THEN NULL
        ELSE bom_patterns[CHOOSE i \in hits : \A j \in hits : i <= j].name

check_ucs_bom(buf) ==
    LET hits == {i \in 1..Len(bom_patterns) :
                    PrefixMatches(buf, bom_patterns[i].pattern)}
    IN  IF hits = {} THEN NULL
        ELSE bom_patterns[CHOOSE i \in hits : \A j \in hits : i <= j].name

check_dbyte(dbyte) ==
    LET hits == {i \in 1..Len(freq_analysis_data) :
                    freq_analysis_data[i].dbyte = dbyte}
    IN  IF hits = {} THEN NULL
        ELSE freq_analysis_data[CHOOSE i \in hits : \A j \in hits : i <= j].enc

Min(a, b) == IF a < b THEN a ELSE b

\* Mutant: the loop run over the whole vector, max_comp_idx never clamped.
check_freq_dbytes_all(vec) ==
    LET hits == {i \in 1..Len(vec) : check_dbyte(vec[i][1]) # NULL}
    IN  IF hits = {} THEN NULL
        ELSE check_dbyte(vec[CHOOSE i \in hits : \A j \in hits : i <= j][1])

\* Mutant: the loop started at index 1, passing over the top entry.
check_freq_dbytes_from_1(vec) ==
    LET max_comp_idx == Min(MAX_COMP_IDX, Len(vec))
        hits == {i \in 2..max_comp_idx : check_dbyte(vec[i][1]) # NULL}
    IN  IF hits = {} THEN NULL
        ELSE check_dbyte(vec[CHOOSE i \in hits : \A j \in hits : i <= j][1])

check_freq_dbytes(vec) ==
    LET max_comp_idx == Min(MAX_COMP_IDX, Len(vec))
        hits == {i \in 1..max_comp_idx : check_dbyte(vec[i][1]) # NULL}
    IN  IF hits = {} THEN NULL
        ELSE check_dbyte(vec[CHOOSE i \in hits : \A j \in hits : i <= j][1])

\* greater_char_count on two counts.
greater_char_count(lhs, rhs) == lhs > rhs

\* std::sort with greater_char_count: the entries <<key, count>> of cnt over
\* the keys S in any order the comparator allows.  std::sort is not stable:
\* entries of equal count may come out in any order.
RECURSIVE SortedOrders(_, _)
SortedOrders(S, cnt) ==
    IF S = {} THEN {<<>>}
    ELSE LET top == {k \in S : \A j \in S : ~greater_char_count(cnt[j], cnt[k])}
         IN  UNION {{<<<<k, cnt[k]>>>> \o t : t \in SortedOrders(S \ {k}, cnt)}
                       : k \in top}

\* Mutant: "<= 5" written for "< 5".
Classify_latin1_le(conformant, binary, nul, dcnt, hihi, vec) ==
    IF ~conformant /\ binary
    THEN (IF nul = ODD THEN "utf-16le"
          ELSE IF nul = EVEN THEN "utf-16"
          ELSE "binary")
    ELSE IF dcnt = 0 THEN "ascii"
    ELSE IF conformant THEN "utf-8"
    ELSE IF (hihi * 100) \div dcnt <= LATIN1_PERCENT THEN "latin1"
    ELSE IF hihi = dcnt THEN "gb2312"
    ELSE check_freq_dbytes(vec)

\* Mutant: the first test without "!is_utf8_conformant".
Classify_binary_first(conformant, binary, nul, dcnt, hihi, vec) ==
    IF binary
    THEN (IF nul = ODD THEN "utf-16le"
          ELSE IF nul = EVEN THEN "utf-16"
          ELSE "binary")
    ELSE IF dcnt = 0 THEN "ascii"
    ELSE IF conformant THEN "utf-8"
    ELSE IF (hihi * 100) \div dcnt < LATIN1_PERCENT THEN "latin1"
    ELSE IF hihi = dcnt THEN "gb2312"
    ELSE check_freq_dbytes(vec)

\* The decision chain at the end of tellenc.
Classify(conformant, binary, nul, dcnt, hihi, vec) ==
    IF ~conformant /\ binary
    THEN (IF nul = ODD THEN "utf-16le"
          ELSE IF nul = EVEN THEN "utf-16"
          ELSE "binary")
    ELSE IF dcnt = 0 THEN "ascii"
    ELSE IF conformant THEN "utf-8"
    ELSE IF (hihi * 100) \div dcnt < LATIN1_PERCENT THEN "latin1"
    ELSE IF hihi = dcnt THEN "gb2312"
    ELSE check_freq_dbytes(vec)

(***************************************************************************)
(* The state machine.                                                      *)
(***************************************************************************)
Init ==
    /\ char_signed \in BOOLEAN
    /\ is_binary = FALSE
    /\ is_utf8_conformant = TRUE
    /\ nul_stat = 0
    /\ pc = "idle"
    /\ first_call = TRUE
    /\ buffer = <<>>
    /\ p = 0
    /\ char_cnt = init_char_count
    /\ mp_dbyte_char_cnt = <<>>
    /\ dbyte_cnt = 0
    /\ dbyte_hihi_cnt = 0
    /\ last_ch = EOF
    /\ utf8_state = UTF8_1
    /\ sorted_char_cnt = <<>>
    /\ dbyte_char_cnt = <<>>
    /\ result = NoResult
    /\ output = NoResult
    /\ repeat = FALSE
    /\ prev_output = NoResult
    /\ sort_memo = NoMemo

\* The locals of tellenc as its declarations and init_char_count leave them.
FreshLocals ==
    /\ p' = 0
    /\ char_cnt' = init_char_count
    /\ mp_dbyte_char_cnt' = <<>>
    /\ dbyte_cnt' = 0
    /\ dbyte_hihi_cnt' = 0
    /\ last_ch' = EOF
    /\ utf8_state' = UTF8_1
    /\ sorted_char_cnt' = <<>>
    /\ dbyte_char_cnt' = <<>>

\* Entry of tellenc(buf, Len(buf)): the BOM check, then the set-up of the
\* scan.  The caller either hands in the buffer it kept or reads a new one.
Tellenc(buf) ==
    /\ pc = "idle"
    /\ repeat => buf = buffer
    /\ buffer' = buf
    /\ prev_output' = IF repeat THEN output ELSE NoResult
    /\ output' = NoResult
    /\ FreshLocals
    /\ IF Len(buf) > BOM_MIN_LEN /\ check_ucs_bom(buf) # NULL
       THEN /\ result' = check_ucs_bom(buf)
            /\ pc' = "done"
       ELSE /\ result' = NoResult
            /\ pc' = "scan"
    /\ UNCHANGED <<char_signed, globals, first_call, repeat, sort_memo>>

\* One iteration of "while (p < buffer + len)".
ScanByte ==
    /\ pc = "scan"
    /\ p < Len(buffer)
    /\ LET ch == buffer[p + 1]
           nontext == is_non_text(ch)
           cls == utf8_char_table(ch)
           ok == utf8_accepts(cls, utf8_state)
           dbyte_char == make_dbyte(last_ch, ch)
       IN  /\ is_binary' = (is_binary \/ nontext)
           /\ nul_stat' = IF nontext /\ ch = NUL
                          THEN BitOr(nul_stat, is_odd_even(p))
                          ELSE nul_stat
           /\ is_utf8_conformant' =
                 utf8_conformant_after(is_utf8_conformant, cls, utf8_state)
           /\ utf8_state' =
                 IF is_utf8_conformant /\ ok
                 THEN utf8_next(cls, utf8_state)
                 ELSE utf8_state
           /\ char_cnt' = count_char(char_cnt, ch)
           /\ IF last_ch # EOF
              THEN /\ mp_dbyte_char_cnt' =
                        count_dbyte(mp_dbyte_char_cnt, dbyte_char)
                   /\ dbyte_cnt' = dbyte_cnt + 1
                   /\ dbyte_hihi_cnt' =
                        IF is_hihi(last_ch, ch)
                        THEN dbyte_hihi_cnt + 1 ELSE dbyte_hihi_cnt
              ELSE UNCHANGED <<mp_dbyte_char_cnt, dbyte_cnt, dbyte_hihi_cnt>>
           /\ last_ch' = next_last_ch(last_ch, ch)
           /\ p' = p + 1
    /\ UNCHANGED <<char_signed, pc, first_call, buffer, sorted_char_cnt,
                   dbyte_char_cnt, result, output, repeat, prev_output,
                   sort_memo>>

\* After the loop: both sorts, then the decision chain and the return.
\* sorted_char_cnt holds the entries of the sorted array that have a count;
\* the zero counts sort behind them and nothing reads them.
\* std::sort is a function of its input: on the buffer of the call before it
\* leaves ties in the order it left them then.
Decide ==
    /\ pc = "scan"
    /\ p = Len(buffer)
    /\ sorted_char_cnt' \in
          SortedOrders({i \in DOMAIN char_cnt : char_cnt[i] # 0}, char_cnt)
    /\ dbyte_char_cnt' \in
          SortedOrders(DOMAIN mp_dbyte_char_cnt, mp_dbyte_char_cnt)
    /\ sort_memo # NoMemo => <<sorted_char_cnt', dbyte_char_cnt'>> = sort_memo
    /\ result' = Classify(is_utf8_conformant, is_binary, nul_stat,
                          dbyte_cnt, dbyte_hihi_cnt, dbyte_char_cnt')
    /\ pc' = "done"
    /\ UNCHANGED <<char_signed, globals, first_call, buffer, p, char_cnt,
                   mp_dbyte_char_cnt, dbyte_cnt, dbyte_hihi_cnt, last_ch,
                   utf8_state, output, repeat, prev_output, sort_memo>>

\* The caller: "if (enc = tellenc(...)) puts(enc); else puts("unknown");".
\* It then drops the buffer or, after the first call of the process, may keep
\* it for a second call on it.
Report(keep) ==
    /\ pc = "done"
    /\ keep => first_call
    /\ output' = report_line(result)
    /\ pc' = "idle"
    /\ repeat' = keep
    /\ first_call' = FALSE
    /\ buffer' = IF keep THEN buffer ELSE <<>>
    /\ result' = NoResult
    /\ prev_output' = NoResult
    /\ sort_memo' = IF keep THEN <<sorted_char_cnt, dbyte_char_cnt>> ELSE NoMemo
    /\ FreshLocals
    /\ UNCHANGED <<char_signed, globals>>

Next ==
    \/ /\ pc = "idle" /\ ~repeat
       /\ \E buf \in Buffers : Tellenc(buf)
    \/ /\ pc = "idle" /\ repeat
       /\ Tellenc(buffer)
    \/ ScanByte
    \/ Decide
    \/ \E keep \in BOOLEAN : Report(keep)

Spec == Init /\ [][Next]_vars

(***************************************************************************)
(* Properties.                                                             *)
(***************************************************************************)

\* tellenc returned from the BOM check, without scanning.
BomReturned ==
    pc = "done" /\ Len(buffer) > BOM_MIN_LEN /\ check_ucs_bom(buffer) # NULL

\* tellenc is at its return after a full scan.
ScanReturned == pc = "done" /\ ~BomReturned

HasPrefix(buf, pat) ==
    Len(buf) >= Len(pat) /\ \A i \in 1..Len(pat) : buf[i] = pat[i]

Utf8Bom == <<239, 187, 191>>

\* The outcomes of a call: in the scan nothing is returned yet, at the return
\* the value is one of the eleven strings of tellenc or NULL, and the line the
\* caller wrote is a label of the closed set.
C1_Outcome ==
    /\ pc = "scan" => p <= Len(buffer) /\ result = NoResult
    /\ pc = "done" => /\ result \in (Labels \ {"unknown"}) \cup {NULL}
                      /\ BomReturned \/ p = Len(buffer)
    /\ pc = "idle" /\ ~first_call => output \in Labels

\* A step taken in the scan consumes one byte, or leaves the scan for the
\* return when all len bytes are consumed.
C1_ScanStep ==
    pc = "scan" =>
        \/ pc' = "scan" /\ p' = p + 1 /\ p' <= Len(buffer)
        \/ pc' = "done" /\ p' = p /\ p = Len(buffer)

\* C1: tellenc is total.  The scan never runs past the buffer and ends after
\* exactly len iterations; what tellenc returns is one of its eleven strings
\* or NULL; and what the caller writes is always one label of the closed set,
\* NULL being written as "unknown".
C1_TotalLabel == []C1_Outcome /\ [][C1_ScanStep]_vars

\* C1 witness: a call that returned NULL has been reported as "unknown".
C1_Witness == pc = "idle" /\ output = "unknown"

\* What the scan of buf leaves in is_utf8_conformant when it starts from
\* true: bytes i.. of buf run through the switch from state st.
RECURSIVE ConformantFrom(_, _, _)
ConformantFrom(buf, i, st) ==
    IF i > Len(buf) THEN TRUE
    ELSE LET cls == utf8_char_table(buf[i])
         IN  /\ utf8_accepts(cls, st)
             /\ ConformantFrom(buf, i + 1, utf8_next(cls, st))

\* The parity bits of the NUL bytes among the first k bytes of buf.
NulParity(buf, k) ==
    (IF \E i \in 1..k : buf[i] = 0 /\ (i - 1) % 2 = 1 THEN ODD ELSE 0)
    + (IF \E i \in 1..k : buf[i] = 0 /\ (i - 1) % 2 = 0 THEN EVEN ELSE 0)

\* The label of the scanned buffer in a process that has classified nothing
\* before: the decision chain on the flags this buffer alone gives.
FreshResult ==
    Classify(ConformantFrom(buffer, 1, UTF8_1),
             \E i \in 1..Len(buffer) : is_non_text(buffer[i]),
             NulParity(buffer, Len(buffer)),
             dbyte_cnt, dbyte_hihi_cnt, dbyte_char_cnt)

\* C2: per-call accumulators never leak between calls: the binary flag, the
\* conformant flag and the NUL parity hold false, true and 0 whenever a scan
\* starts, whatever was classified before, and the label of a buffer is the
\* one it gets as the first buffer of a fresh process.
C2_NoLeak ==
    /\ pc = "scan" /\ p = 0 =>
          is_binary = FALSE /\ is_utf8_conformant = TRUE /\ nul_stat = 0
    /\ ScanReturned => result = FreshResult

\* C2 restricted to the first call of a process.
C2_FirstCall == first_call => C2_NoLeak

\* C3 as claimed: every buffer that opens with EF BB BF, of any length from
\* three bytes up, is labelled "utf-8".
C3_AnyLength ==
    pc = "done" /\ HasPrefix(buffer, Utf8Bom) => result = "utf-8"

\* C3, amended: every buffer of more than four bytes that opens with EF BB BF
\* is labelled "utf-8", whatever follows.
C3_BomUtf8 ==
    pc = "done" /\ Len(buffer) > 4 /\ HasPrefix(buffer, Utf8Bom)
        => result = "utf-8"

\* C3 witness: a buffer with the mark and then a NUL, which a scan would never
\* label "utf-8", has been labelled "utf-8".
C3_Witness ==
    /\ pc = "done" /\ Len(buffer) > 4 /\ HasPrefix(buffer, Utf8Bom)
    /\ \E i \in 4..Len(buffer) : buffer[i] = 0
    /\ result = "utf-8"

\* C4: in the first call of a process, a buffer whose bytes all lie in
\* 0x01..0x7F, the empty buffer and buffers with 0x1A or 0x7F included, is
\* labelled "ascii".
C4_Ascii ==
    first_call /\ pc = "done" /\ (\A i \in 1..Len(buffer) : buffer[i] \in 1..127)
        => result = "ascii"

\* C4 witness: a first buffer holding both 0x1A and 0x7F has been labelled
\* "ascii" with the binary flag set.
C4_Witness ==
    /\ first_call /\ pc = "done" /\ result = "ascii" /\ is_binary
    /\ \E i, j \in 1..Len(buffer) : buffer[i] = 26 /\ buffer[j] = 127

(***************************************************************************)
(* The UTF-8 state machine as the specification states it (section 4.2):   *)
(* the number of continuation bytes still expected after each byte, or -1  *)
(* once a byte has been rejected.                                          *)
(***************************************************************************)
SpecFollow(b) ==
    IF b \in 194..223 THEN 1
    ELSE IF b \in 224..239 THEN 2
    ELSE IF b \in 240..244 THEN 3
    ELSE 0

RECURSIVE SpecRun(_, _, _)
SpecRun(buf, i, expected) ==
    IF i > Len(buf) THEN expected
    ELSE LET b == buf[i]
         IN  IF b = 0 \/ b \in 192..193 \/ b >= 245 THEN -1
             ELSE IF b <= 127
                  THEN (IF expected = 0 THEN SpecRun(buf, i + 1, 0) ELSE -1)
             ELSE IF b <= 191
                  THEN (IF expected > 0 THEN SpecRun(buf, i + 1, expected - 1)
                        ELSE -1)
             ELSE (IF expected = 0 THEN SpecRun(buf, i + 1, SpecFollow(b))
                   ELSE -1)

\* Every byte accepted and every lead byte followed by all its continuation
\* bytes.
Utf8Accepted(buf) == SpecRun(buf, 1, 0) = 0

HasMultiByte(buf) == \E i \in 1..Len(buf) : buf[i] \in 194..244

NoBomPrefix(buf) ==
    \A i \in 1..Len(bom_patterns) : ~HasPrefix(buf, bom_patterns[i].pattern)

\* C5: a buffer with no BOM prefix that the UTF-8 state machine accepts and
\* that holds a multi-byte sequence ends its scan with the conformant flag
\* true and a digraph count above 0, and is labelled "utf-8".
C5_Utf8 ==
    pc = "done" /\ NoBomPrefix(buffer) /\ Utf8Accepted(buffer)
                /\ HasMultiByte(buffer)
        => is_utf8_conformant /\ dbyte_cnt > 0 /\ result = "utf-8"

\* C5 restricted to the first call of a process, where no earlier call has
\* cleared is_utf8_conformant.
C5_Utf8FirstCall == first_call => C5_Utf8

\* C6: rule 1.  When a scan ends with the conformant flag false and the binary
\* flag true, the label is read off the NUL parity alone: "utf-16le" for ODD
\* only, "utf-16" for EVEN only, "binary" for neither or both, whatever the
\* digraph counts are.  From a clear accumulator (the first call) the parity
\* is that of the 0-based offsets of the NUL bytes scanned so far.
C6_Rule1 ==
    /\ ScanReturned /\ ~is_utf8_conformant /\ is_binary =>
          result = (CASE nul_stat = ODD -> "utf-16le"
                      [] nul_stat = EVEN -> "utf-16"
                      [] OTHER -> "binary")
    /\ first_call /\ (pc = "scan" \/ ScanReturned) =>
          nul_stat = NulParity(buffer, p)

\* C6 witness: FF 00 FF 00 has been labelled "utf-16le" with two digraphs
\* counted, none of them hi-hi.
C6_Witness ==
    /\ pc = "done" /\ buffer = <<255, 0, 255, 0>> /\ result = "utf-16le"
    /\ nul_stat = ODD /\ dbyte_cnt = 2 /\ dbyte_hihi_cnt = 0

\* A buffer that is one pair of bytes above 0xA0, repeated.
PairsAllHigh(buf) ==
    /\ Len(buf) >= 2 /\ Len(buf) % 2 = 0
    /\ \A i \in 1..Len(buf) : buf[i] > 160
    /\ \A i \in 3..Len(buf) : buf[i] = buf[i - 2]

\* C7 as claimed: a buffer of repeated pairs of bytes above 0xA0, with no BOM
\* prefix and not conformant, has H = D and is labelled "gb2312".
C7_AllHighPairs ==
    pc = "done" /\ PairsAllHigh(buffer) /\ NoBomPrefix(buffer)
                /\ ~is_utf8_conformant
        => dbyte_hihi_cnt = dbyte_cnt /\ result = "gb2312"

\* C7, amended: the same, for a scan that ends with the binary flag false.
C7_Gb2312 ==
    pc = "done" /\ PairsAllHigh(buffer) /\ NoBomPrefix(buffer)
                /\ ~is_utf8_conformant /\ ~is_binary
        => dbyte_hihi_cnt = dbyte_cnt /\ result = "gb2312"

\* C7 witness: B0 B1 B0 B1 has been labelled "gb2312".
C7_Witness ==
    /\ pc = "done" /\ buffer = <<176, 177, 176, 177>> /\ result = "gb2312"
    /\ dbyte_hihi_cnt = 2 /\ dbyte_cnt = 2

\* The digraph 0xB5 0xC4 of freq_analysis_data.
GbkB5C4 == 46532

TopCount == Min(MAX_COMP_IDX, Len(dbyte_char_cnt))

InTop(dbyte) == \E i \in 1..TopCount : dbyte_char_cnt[i][1] = dbyte

\* No entry ranked above dbyte is a "big5" digraph of the dictionary.
NoBig5Above(dbyte) ==
    \A i \in 1..TopCount :
        dbyte_char_cnt[i][1] = dbyte =>
            \A j \in 1..(i - 1) : check_dbyte(dbyte_char_cnt[j][1]) # "big5"

\* C8 as claimed: with 0xB5 0xC4 among the top 10 sorted digraphs, H # D and
\* H*100/D >= 5, the label is "gbk".
C8_TopTen ==
    pc = "done" /\ InTop(GbkB5C4) /\ dbyte_hihi_cnt # dbyte_cnt
                /\ (dbyte_hihi_cnt * 100) \div dbyte_cnt >= 5
        => result = "gbk"

\* C8, amended: the same, for a scan that ends with the conformant flag false
\* and the binary flag false (rules 1 to 3 do not fire) and with no Big5
\* digraph of the dictionary ranked above 0xB5 0xC4.
C8_Gbk ==
    pc = "done" /\ InTop(GbkB5C4) /\ dbyte_hihi_cnt # dbyte_cnt
                /\ (dbyte_hihi_cnt * 100) \div dbyte_cnt >= 5
                /\ ~is_utf8_conformant /\ ~is_binary /\ NoBig5Above(GbkB5C4)
        => result = "gbk"

\* C8 witness: "gbk" has been returned from the dictionary with 0xB5 0xC4 top
\* ranked and a Big5 digraph ranked below it.
C8_Witness ==
    /\ pc = "done" /\ result = "gbk" /\ dbyte_hihi_cnt # dbyte_cnt
    /\ ~is_utf8_conformant /\ ~is_binary
    /\ dbyte_char_cnt # <<>> /\ dbyte_char_cnt[1][1] = GbkB5C4
    /\ \E j \in 2..TopCount : check_dbyte(dbyte_char_cnt[j][1]) = "big5"

\* C9: idempotence.  When the first buffer of a process is classified a
\* second time in the next call, the label is the one the first call gave.
C9_Idempotent ==
    pc = "done" /\ repeat => report_line(result) = prev_output

\* C9 witness: the second call on a buffer with a NUL, entered with the flags
\* the first call left, has returned the first call's "utf-16le".
C9_Witness ==
    /\ pc = "done" /\ repeat /\ ~first_call
    /\ result = "utf-16le" /\ prev_output = "utf-16le"

RECURSIVE SumOver(_, _)
SumOver(f, S) ==
    IF S = {} THEN 0
    ELSE LET k == CHOOSE x \in S : TRUE IN f[k] + SumOver(f, S \ {k})

\* The sum of the counts of a histogram: of all its entries, those that are
\* zero adding nothing.
SumCounts(f) == SumOver(f, {k \in DOMAIN f : f[k] # 0})

\* The sum of the counts of a sorted histogram, a sequence of <<key, count>>.
SumSorted(vec) == SumOver([i \in DOMAIN vec |-> vec[i][2]], DOMAIN vec)

\* The pairs greedy, non-overlapping pairing forms in bytes i..k of buf.
RECURSIVE PairCount(_, _, _, _)
PairCount(buf, i, k, pending) ==
    IF i > k THEN 0
    ELSE IF pending THEN 1 + PairCount(buf, i + 1, k, FALSE)
    ELSE PairCount(buf, i + 1, k, buf[i] >= 128)

\* C10: histogram invariant.  After k bytes of a scan the 256 single-byte
\* counts sum to k, hence to the buffer length at the end; the digraph counts
\* sum to dbyte_cnt, the number of pairs consumed; and both sorted histograms
\* keep those sums.
C10_Histograms ==
    /\ (pc = "scan" \/ ScanReturned) =>
          /\ DOMAIN char_cnt = 0..(MAX_CHAR - 1)
          /\ SumCounts(char_cnt) = p
          /\ SumCounts(mp_dbyte_char_cnt) = dbyte_cnt
          /\ dbyte_cnt = PairCount(buffer, 1, p, FALSE)
    /\ ScanReturned =>
          /\ SumCounts(char_cnt) = Len(buffer)
          /\ SumSorted(sorted_char_cnt) = Len(buffer)
          /\ SumSorted(dbyte_char_cnt) = dbyte_cnt

\* C10 witness: a scan has ended with one digraph counted twice.
C10_Witness ==
    /\ ScanReturned /\ p = Len(buffer) /\ dbyte_cnt = 2
    /\ Cardinality(DOMAIN mp_dbyte_char_cnt) = 1

\* The label of the first pattern, in the order 00 00 FE FF, FF FE 00 00,
\* EF BB BF, FE FF, FF FE, that is a prefix of buf.
FirstBomLabel(buf) ==
    IF HasPrefix(buf, <<0, 0, 254, 255>>) THEN "ucs-4"
    ELSE IF HasPrefix(buf, <<255, 254, 0, 0>>) THEN "ucs-4le"
    ELSE IF HasPrefix(buf, <<239, 187, 191>>) THEN "utf-8"
    ELSE IF HasPrefix(buf, <<254, 255>>) THEN "utf-16"
    ELSE IF HasPrefix(buf, <<255, 254>>) THEN "utf-16le"
    ELSE NULL

\* The decision chain on what the scan left.
ScanResult ==
    Classify(is_utf8_conformant, is_binary, nul_stat, dbyte_cnt,
             dbyte_hihi_cnt, dbyte_char_cnt)

\* C11: BOM detection.  A buffer of more than 4 bytes that opens with one of
\* the five patterns is labelled by the first of them, in the fixed order,
\* that is its prefix, so FF FE 00 00 is "ucs-4le" and never "utf-16le"; a
\* buffer of 4 bytes or less is always scanned to its end and labelled by the
\* decision chain, whatever its prefix.
C11_BomOrder ==
    /\ pc = "done" /\ Len(buffer) > 4 /\ ~NoBomPrefix(buffer) =>
          result = FirstBomLabel(buffer)
    /\ pc = "done" /\ Len(buffer) <= 4 =>
          p = Len(buffer) /\ result = ScanResult
    /\ pc = "scan" => Len(buffer) <= 4 \/ NoBomPrefix(buffer)

\* C11 witness: a buffer of more than 4 bytes opening with FF FE 00 00 has
\* been labelled "ucs-4le" without a scan.
C11_Witness ==
    /\ pc = "done" /\ HasPrefix(buffer, <<255, 254, 0, 0>>)
    /\ Len(buffer) > 4 /\ result = "ucs-4le" /\ p = 0

\* The state of the section 4.2 machine after the first k bytes of buf.
SpecAfter(buf, k) == SpecRun(SubSeq(buf, 1, k), 1, 0)

\* C12: the UTF-8 checker refines the specified state machine.  After any
\* prefix of any buffer the conformant flag is false exactly when the machine,
\* started at "expecting single", has rejected a byte of the prefix; and
\* while the flag is true utf8_state is 1 + the number of continuation bytes
\* still expected.
C12_Refines ==
    (pc = "scan" \/ ScanReturned) =>
        /\ is_utf8_conformant <=> SpecAfter(buffer, p) # -1
        /\ is_utf8_conformant => utf8_state = 1 + SpecAfter(buffer, p)

\* C12 restricted to the first call of a process.
C12_FirstCall == first_call => C12_Refines

\* C13: the conformant flag is sticky.  No step sets it back to true once it
\* is false: not a later byte of the scan, nor anything after it.
C13_Sticky == [][~is_utf8_conformant => ~is_utf8_conformant']_vars

\* C13 witness: a first scan whose first byte, 0x80, was rejected and whose
\* other bytes are all 'A' has ended with the flag false.
C13_Witness ==
    /\ first_call /\ ScanReturned /\ ~is_utf8_conformant
    /\ Len(buffer) >= 3 /\ buffer[1] = 128
    /\ \A i \in 2..Len(buffer) : buffer[i] = 65

\* C14: truncation is not checked.  A buffer of which the machine accepts
\* every byte but which ends while continuation bytes are expected ends its
\* scan with the conformant flag true, and is labelled "ascii" when no
\* digraph was counted and "utf-8" otherwise.
C14_Truncated ==
    ScanReturned /\ SpecAfter(buffer, Len(buffer)) > 0 =>
        /\ is_utf8_conformant
        /\ result = IF dbyte_cnt = 0 THEN "ascii" ELSE "utf-8"

\* C14 restricted to the first call of a process.
C14_FirstCall == first_call => C14_Truncated

\* Byte i of buf opens a digraph: it is high and is not the second byte of
\* the digraph opened just before it.
RECURSIVE OpensDigraph(_, _)
OpensDigraph(buf, i) ==
    buf[i] >= 128 /\ (i = 1 \/ ~OpensDigraph(buf, i - 1))

\* The offsets, among the first k bytes of buf, of the first bytes of the
\* digraphs whose second byte lies among them too.
DigraphStarts(buf, k) == {i \in 1..(k - 1) : OpensDigraph(buf, i)}

DigraphAt(buf, i) == buf[i] * 256 + buf[i + 1]

\* C15: digraph pairing is greedy and non-overlapping.  After p bytes the
\* digraphs counted are exactly the pairs (buffer[i], buffer[i+1]) with
\* buffer[i] >= 0x80 and buffer[i] not the second byte of a counted digraph,
\* each counted once under its 16-bit value; no byte is in two digraphs; and
\* a byte is pending exactly when it is high and opens a digraph whose second
\* byte is not read yet, whatever the second byte of the pair before it was.
C15_Greedy ==
    (pc = "scan" \/ ScanReturned) =>
        LET starts == DigraphStarts(buffer, p)
        IN  /\ dbyte_cnt = Cardinality(starts)
            /\ DOMAIN mp_dbyte_char_cnt = {DigraphAt(buffer, i) : i \in starts}
            /\ \A k \in DOMAIN mp_dbyte_char_cnt :
                  mp_dbyte_char_cnt[k] =
                      Cardinality({i \in starts : DigraphAt(buffer, i) = k})
            /\ \A i \in starts : (i + 1) \notin starts
            /\ last_ch = IF p >= 1 /\ OpensDigraph(buffer, p)
                          THEN buffer[p] ELSE EOF

\* C15 witness: three high bytes B0 B1 B0 have given one digraph, B0 B1, and
\* left the third byte pending.
C15_Witness ==
    /\ ScanReturned /\ buffer = <<176, 177, 176>>
    /\ dbyte_cnt = 1 /\ DOMAIN mp_dbyte_char_cnt = {45233} /\ last_ch = 176

\* A sorted histogram has its counts in non-increasing order.
Descending(vec) ==
    \A i, j \in DOMAIN vec : i < j => vec[i][2] >= vec[j][2]

\* Entries of equal count are in ascending key order.
TiesAscending(vec) ==
    \A i, j \in DOMAIN vec : i < j /\ vec[i][2] = vec[j][2] => vec[i][1] < vec[j][1]

\* C16: after the scan both histograms are sorted by count descending with
\* ties in ascending key order.
C16_SortedTies ==
    ScanReturned =>
        /\ Descending(sorted_char_cnt) /\ TiesAscending(sorted_char_cnt)
        /\ Descending(dbyte_char_cnt) /\ TiesAscending(dbyte_char_cnt)

\* The part of C16 that std::sort gives: counts in non-increasing order.
C16_Descending ==
    ScanReturned => Descending(sorted_char_cnt) /\ Descending(dbyte_char_cnt)

\* The dictionary label of the first of entries i..10 of the sorted digraph
\* histogram vec that is in the dictionary, NULL when none is.
RECURSIVE TopLabel(_, _)
TopLabel(vec, i) ==
    IF i > 10 \/ i > Len(vec) THEN NULL
    ELSE IF check_dbyte(vec[i][1]) # NULL THEN check_dbyte(vec[i][1])
    ELSE TopLabel(vec, i + 1)

\* Rules 1 to 3 do not fire: not binary with the conformant flag false, a
\* digraph counted, and the conformant flag false.
Rules1to3Off ==
    ~(~is_utf8_conformant /\ is_binary) /\ dbyte_cnt # 0 /\ ~is_utf8_conformant

\* Rules 1 to 5 do not fire.
Rules1to5Off ==
    /\ Rules1to3Off
    /\ ~(100 * dbyte_hihi_cnt < 5 * dbyte_cnt)
    /\ dbyte_hihi_cnt # dbyte_cnt

\* C17: rules 6 and 7.  When rules 1 to 5 do not fire, what tellenc returns
\* is the dictionary label of the first of the at most 10 top entries of the
\* sorted digraph histogram that is in the dictionary, whatever is ranked
\* 11th or lower; and the line written is "unknown" exactly when none of
\* those top entries is in the dictionary.
C17_Dictionary ==
    ScanReturned /\ Rules1to5Off =>
        /\ result = TopLabel(dbyte_char_cnt, 1)
        /\ report_line(result) = "unknown" <=>
               \A i \in 1..Len(dbyte_char_cnt) :
                   i <= 10 => check_dbyte(dbyte_char_cnt[i][1]) = NULL

\* C17 witness: with the dictionary digraph A1 41 ranked 11th, below ten
\* digraphs that are not in the dictionary, tellenc has returned NULL.
C17_Witness ==
    /\ ScanReturned /\ Rules1to5Off /\ Len(dbyte_char_cnt) >= 11
    /\ dbyte_char_cnt[11][1] = 41281 /\ check_dbyte(41281) = "big5"
    /\ result = NULL

\* C18: rule 4.  H <= D at all times; a call that gets past rules 1 to 3
\* (where the quotient H*100/D is evaluated) has D > 0; and for a buffer that
\* passes rules 1 to 3 the label is "latin1" exactly when H*100/D rounded
\* down is below 5, that is when 100*H < 5*D.
C18_Latin1 ==
    /\ (pc = "scan" \/ ScanReturned) => dbyte_hihi_cnt <= dbyte_cnt
    /\ ScanReturned /\ result \notin {"utf-16le", "utf-16", "binary", "ascii", "utf-8"}
          => dbyte_cnt > 0
    /\ ScanReturned /\ Rules1to3Off =>
          (result = "latin1" <=> 100 * dbyte_hihi_cnt < 5 * dbyte_cnt)

\* C18 witness: with one hi-hi digraph among 21, H*100/D = 4, "latin1" has
\* been returned.
C18_Witness ==
    /\ ScanReturned /\ Rules1to3Off
    /\ dbyte_hihi_cnt = 1 /\ dbyte_cnt = 21 /\ result = "latin1"

\* C19 as claimed: "ascii" is returned only for buffers in which every byte
\* is below 0x80.
C19_AsciiAllLow ==
    pc = "done" /\ result = "ascii" =>
        \A i \in 1..Len(buffer) : buffer[i] < 128

\* C19, amended: "ascii" is returned only for buffers in which every byte
\* but the last is below 0x80; a buffer with a byte >= 0x80 at any offset
\* other than the last is never labelled "ascii".
C19_AsciiLowButLast ==
    pc = "done" /\ result = "ascii" =>
        \A i \in 1..(Len(buffer) - 1) : buffer[i] < 128

\* C19 witness: 'A' E9, with its high byte last and no digraph counted, has
\* been labelled "ascii".
C19_Witness ==
    /\ pc = "done" /\ buffer = <<65, 233>> /\ result = "ascii"
    /\ dbyte_cnt = 0 /\ last_ch = 233

\* C20: in every reachable state a non-zero NUL parity accumulator comes with
\* the binary flag true and the conformant flag false; and every buffer that
\* holds a NUL byte and is scanned (no BOM return) is labelled "utf-16",
\* "utf-16le" or "binary".
C20_NulBinary ==
    /\ nul_stat # 0 => is_binary /\ ~is_utf8_conformant
    /\ ScanReturned /\ (\E i \in 1..Len(buffer) : buffer[i] = 0) =>
          result \in {"utf-16", "utf-16le", "binary"}

\* C20 witness: a first buffer with NUL bytes at both parities among bytes
\* that are text has been labelled "binary".
C20_Witness ==
    /\ first_call /\ ScanReturned /\ nul_stat = 3 /\ result = "binary"
    /\ \E i \in 1..Len(buffer) : buffer[i] = 65

====
